---- MODULE Spec2Model ----
(***************************************************************************)
(* oci2disk: image.Write pulls an OCI image and streams its layers onto a  *)
(* block device (src/oci2disk/image/image.go).  The model follows Write    *)
(* statement by statement: the orchestrating goroutine is `pc`, the        *)
(* per-layer progress goroutines are `reporter`.  Byte streams are         *)
(* sequences of integers; a compressed stream is a one-byte magic header   *)
(* followed by the payload bytes shifted by a per-codec key, so that a     *)
(* decoder is never the identity.                                          *)
(***************************************************************************)
EXTENDS Integers, Sequences, FiniteSets, TLC

\* ---------------------------------------------------------------- bounds
\* Longest manifest explored.
MaxLayers == 2
\* Longest layer payload explored (in bytes).
MaxLen == 2

Layers == 1..MaxLayers

\* ------------------------------------------------------- names and codecs
customMediaType == "application/vnd.oci.image.layer.v1.tar"

otherMediaType == "application/vnd.oci.image.layer.v1.tar+gzip"

\* filepath.Ext: the suffix beginning at the final dot of the final
\* slash-separated element of path; empty when there is no dot.
FilepathExt(path) ==
    LET dots == {j \in 1..Len(path) :
                    /\ path[j] = "."
                    /\ \A m \in j..Len(path) : path[m] # "/"}
    IN  IF dots = {} THEN <<>>
        ELSE LET d == CHOOSE j \in dots : \A m \in dots : m <= j
             IN  SubSeq(path, d, Len(path))

\* A dispatch that falls back to bzip2 instead of rejecting the name.
CodecOfExtDefaulting(ext) ==
    CASE ext = <<".", "g", "z">> -> "gzip"
      [] ext = <<".", "x", "z">> -> "xz"
      [] ext = <<".", "z", "s">> \/ ext = <<".", "z", "s", "t">> -> "zstd"
      [] OTHER -> "bzip2"

\* The switch of findDecompressor: the codec a (case-sensitive) extension selects.
CodecOfExt(ext) ==
    CASE ext = <<".", "b", "z", "i", "p", "2">> \/ ext = <<".", "b", "z", "2">> -> "bzip2"
      [] ext = <<".", "g", "z">> -> "gzip"
      [] ext = <<".", "x", "z">> -> "xz"
      [] ext = <<".", "z", "s">> \/ ext = <<".", "z", "s", "t">> -> "zstd"
      [] OTHER -> "unknown"

Codecs == {"bzip2", "gzip", "xz", "zstd"}

\* First byte of each container format (gzip 1f, xz fd, bzip2 'B', zstd 28).
Magic(c) ==
    CASE c = "gzip" -> 31 [] c = "xz" -> 253 [] c = "bzip2" -> 66 [] c = "zstd" -> 40

\* Shift a codec applies to every payload byte.
Key(c) ==
    CASE c = "gzip" -> 1000 [] c = "xz" -> 2000 [] c = "bzip2" -> 3000 [] c = "zstd" -> 4000

\* What gzip.NewWriter / xz.NewWriter (and the like) produce for a payload.
Encode(c, payload) ==
    IF c = "raw" THEN payload
    ELSE <<Magic(c)>> \o [j \in 1..Len(payload) |-> payload[j] + Key(c)]

\* What a decoder of codec c yields for body bytes that follow the header.
DecodeBody(c, body) == [j \in 1..Len(body) |-> body[j] - Key(c)]

ValidHeader(c, s) == Len(s) > 0 /\ s[1] = Magic(c)

\* Only gzip checks the header when the reader is created.
HeaderReadByNewReaderGzipOnly(c) == c = "gzip"

\* gzip.NewReader and xz.NewReader read and check the stream header when
\* the reader is created; bzip2.NewReader and zstd.NewReader read nothing
\* until the first Read.
HeaderReadByNewReader(c) == c \in {"gzip", "xz"}

\* A reader value: kind "nil" is the nil io.ReadCloser; hdr says whether
\* the stream header has been consumed; closer is what Close does.
NilReader == [kind |-> "nil", hdr |-> FALSE, closer |-> "none"]

CloserOf(c) == IF c \in {"bzip2", "xz"} THEN "nop" ELSE c

NoError == "nil"

\* findDecompressor(imageURL, r): r is the unread rest of the source stream.
\* Returns the reader, the error and the rest of r after the call.
findDecompressor(imageURL, r) ==
    LET c == CodecOfExt(FilepathExt(imageURL))
    IN  IF c = "unknown"
        THEN [reader |-> NilReader, err |-> "unknown compression suffix", rest |-> r]
        ELSE IF ~HeaderReadByNewReader(c)
        THEN [reader |-> [kind |-> c, hdr |-> FALSE, closer |-> CloserOf(c)],
              err |-> NoError, rest |-> r]
        ELSE IF ValidHeader(c, r)
        THEN [reader |-> [kind |-> c, hdr |-> TRUE, closer |-> CloserOf(c)],
              err |-> NoError, rest |-> Tail(r)]
        ELSE [reader |-> NilReader, err |-> "invalid header",
              rest |-> IF r = <<>> THEN r ELSE Tail(r)]

\* ------------------------------------------------------------ the streams
\* Outcomes of one Read on a raw stream with unread bytes s: some bytes
\* with no error, the last bytes or none with EOF, or a transport error
\* after any number of bytes.
RawRead(s) ==
    {[data |-> SubSeq(s, 1, n), er |-> NoError, rest |-> SubSeq(s, n + 1, Len(s))] :
        n \in 1..Len(s)}
    \cup {[data |-> s, er |-> "EOF", rest |-> <<>>]}
    \cup {[data |-> SubSeq(s, 1, n), er |-> "read error", rest |-> SubSeq(s, n + 1, Len(s))] :
        n \in 0..Len(s)}

\* Outcomes of one Read on sourceReader: the layer stream itself when no
\* decompressor was created, else the decompressor over it.  A lazy
\* decoder checks the header on its first Read.
SourceRead(dec, s) ==
    IF dec.kind = "nil"
    THEN {[data |-> o.data, er |-> o.er, rest |-> o.rest, dec |-> dec] : o \in RawRead(s)}
    ELSE IF ~dec.hdr /\ ~ValidHeader(dec.kind, s)
    THEN {[data |-> <<>>, er |-> "invalid header", rest |-> s, dec |-> dec]}
    ELSE LET body == IF dec.hdr THEN s ELSE Tail(s)
         IN  {[data |-> DecodeBody(dec.kind, o.data), er |-> o.er, rest |-> o.rest,
               dec |-> [dec EXCEPT !.hdr = TRUE]] : o \in RawRead(body)}

\* Outcomes of one Write of b on the sink: an *os.File writes everything
\* or reports an error with fewer bytes written; an arbitrary io.Writer
\* may accept any prefix with or without an error.
SinkWrite(kind, b) ==
    IF kind = "file"
    THEN {[nw |-> Len(b), ew |-> NoError]}
         \cup {[nw |-> m, ew |-> "write error"] : m \in 0..(Len(b) - 1)}
    ELSE {[nw |-> m, ew |-> e] : m \in 0..Len(b), e \in {NoError, "write error"}}

\* A write that lands in front of what the device already holds.
FileWritePrepending(dev, b, nw) == SubSeq(b, 1, nw) \o dev

\* The device after the file accepted the first nw bytes of b at its offset.
FileWrite(dev, b, nw) == dev \o SubSeq(b, 1, nw)

\* A counter that adds the bytes requested instead of the bytes written.
CountWrittenRequested(nu, b) == Len(b)

\* Progress.Write: what is added to wBytes for a sink that returned nu.
CountWritten(nu, b) == nu


\* An error check that never sees the copy fail.
CopyFailedNever(err) == FALSE

\* `if err != nil` after the copy (line 212).
CopyFailed(err) == err # NoError

\* A comparison that no count satisfies.
NoLayerProcessedNever(n) == n < 0

\* `if processedLayers == 0` (line 220).
NoLayerProcessed(n) == n = 0

\* ------------------------------------------------------------ the inputs
NameGz == <<"d", ".", "r", ".", "g", "z">>
NameXz == <<"d", ".", "x", "z">>
NameZst == <<"d", ".", "z", "s", "t">>
NameRaw == <<"d", ".", "r", "a", "w">>

\* The names handed to findDecompressor on its own: every suffix of the
\* table, differently-cased and unknown extensions, no extension, a dot
\* in a directory only, a trailing dot, a bare extension, the empty name.
Names ==
    { NameGz, NameXz, NameZst, NameRaw,
      <<"d", ".", "b", "z", "2">>, <<"d", ".", "b", "z", "i", "p", "2">>,
      <<"d", ".", "z", "s">>, <<"d", ".", "G", "Z">>, <<"d", ".", "g", "Z">>,
      <<"d", ".", "a", "b", "c">>, <<"d">>, <<>>, <<".", "g", "z">>,
      <<"g", "z">>, <<"d", ".", "g", "z", ".">>, <<"a", ".", "g", "z", "/", "d">>,
      <<"a", ".", "b", "/", "d", ".", "x", "z">>, <<"d", ".", "z", "s", "t", "d">>,
      <<"d", ".", "g", "z", "i", "p">> }

\* The payload of the layer at position k: n bytes, each one distinct.
Payload(k, n) == [j \in 1..n |-> 100 * k + j]

Encodings == Codecs \cup {"raw"}

Case(mt, ha, ht, title, enc, n) ==
    [mediaType |-> mt, hasAnnotations |-> ha, hasTitle |-> ht, title |-> title,
     enc |-> enc, n |-> n]

\* The layer descriptors a manifest is drawn from: pass-through layers
\* (no annotation map, a map without a title), well-formed compressed
\* layers, layers whose title and content disagree, titles without a known
\* extension, and a layer of another media type.
LayerCases ==
    {Case(customMediaType, FALSE, FALSE, <<>>, "raw", n) : n \in 0..MaxLen}
    \cup { Case(customMediaType, TRUE, FALSE, <<>>, "gzip", 1),
           Case(customMediaType, TRUE, TRUE, NameGz, "gzip", MaxLen),
           Case(customMediaType, TRUE, TRUE, NameZst, "zstd", 1),
           Case(customMediaType, TRUE, TRUE, NameZst, "gzip", 1),
           Case(customMediaType, TRUE, TRUE, NameXz, "gzip", 1),
           Case(customMediaType, TRUE, TRUE, <<>>, "raw", 1),
           Case(customMediaType, TRUE, TRUE, NameRaw, "raw", 1),
           Case(otherMediaType, TRUE, TRUE, NameGz, "gzip", 1) }

\* ocispec.Descriptor of the layer at position k (Size is Len(blob)).
LayerOf(c, k) ==
    [mediaType |-> c.mediaType, hasAnnotations |-> c.hasAnnotations,
     hasTitle |-> c.hasTitle, title |-> c.title,
     blob |-> Encode(c.enc, Payload(k, c.n))]

Manifests ==
    UNION {{[k \in 1..len |-> LayerOf(f[k], k)] : f \in [1..len -> LayerCases]} :
              len \in 0..MaxLayers}

\* sourceImage as remote.NewRepository sees it: whether it parses, and the
\* tag or digest it carries.
ImageRefs ==
    { [wellFormed |-> FALSE, reference |-> ""],
      [wellFormed |-> TRUE, reference |-> ""],
      [wellFormed |-> TRUE, reference |-> "latest"] }

\* A title test that takes an empty title for a missing one.
HasTitleNonEmpty(layer) ==
    layer.hasAnnotations /\ layer.hasTitle /\ layer.title # <<>>

\* `layer.Annotations != nil` and the title key is in the map (lines 161-162).
HasTitle(layer) == layer.hasAnnotations /\ layer.hasTitle

\* A filter that lets every media type through.
MatchesMediaTypeAlways(layer) == TRUE

\* `layer.MediaType != customMediaType` negated (line 143).
MatchesMediaType(layer) == layer.mediaType = customMediaType

\* ------------------------------------------------------------- the state
VARIABLES
    sourceImage,      \* the image reference Write was called with
    pc,               \* where the goroutine running Write (or the harness) is
    result,           \* what Write returned: [msg, cause]; msg "" while running
    fileOut,          \* the destination handle: "unopened", "open", "closed"
    fileCloses,       \* Close calls on fileOut
    device,           \* bytes the device has received, in offset order
    manifest,         \* the parsed manifest's layers (<<>> before the parse)
    i,                \* position of the range loop over manifest.Layers
    layerReader,      \* per layer: "none", "failed", "open", "closed"
    src,              \* unread bytes of the current layerReader
    decompressor,     \* the current layer's decompressor, or NilReader
    selectorCalls,    \* per layer: the names findDecompressor was called with
    decompCloses,     \* per layer: Close calls on the decompressor
    readerCloses,     \* per layer: Close calls on layerReader
    pw,               \* Progress.w, the sink: "file" or "any"
    rBytes,           \* per layer: Progress.rBytes
    wBytes,           \* per layer: Progress.wBytes
    buf,              \* io.Copy: the bytes read and not yet written
    rdErr,            \* io.Copy: the error that came with those bytes
    copyErr,          \* err of io.Copy (line 200)
    ticker,           \* the current layer's ticker: "none", "running", "stopped"
    tickC,            \* whether ticker.C holds a tick
    reporter,         \* per layer: "none", "select", "tickLog", "finalLog", "exited"
    lastReport,       \* per layer: the report logged last: "none", "tick", "final"
    finalReports,     \* per layer: reports logged on done
    totalBytes,       \* Run Totals: bytes
    processedLayers,  \* Run Totals: layers
    finalOps,         \* finalizer calls issued on fileOut, in order
    env,              \* cidataio: the process environment, variable -> value
    cpc,              \* cidataio: where main is
    partsBefore,      \* cidataio: main's partsBefore
    partsAfter,       \* cidataio: main's partsAfter
    newPart,          \* cidataio: main's newPart
    cmds,             \* cidataio: the commands run, in order: <<name, argument, ok>>
    files,            \* cidataio: the files under the mount point, path -> content
    exit              \* cidataio: "running", "ok" (main returned), "fatal" (log.Fatalf)

vars ==
    << sourceImage, pc, result, fileOut, fileCloses, device, manifest, i,
       layerReader, src, decompressor, selectorCalls, decompCloses, readerCloses,
       pw, rBytes,
       wBytes, buf, rdErr, copyErr, ticker, tickC, reporter,
       lastReport, finalReports, totalBytes, processedLayers, finalOps,
       env, cpc, partsBefore, partsAfter, newPart, cmds, files, exit >>

writeVars ==
    << sourceImage, pc, result, fileOut, fileCloses, device, manifest, i,
       layerReader, src, decompressor, selectorCalls, decompCloses, readerCloses,
       pw, rBytes,
       wBytes, buf, rdErr, copyErr, ticker, tickC, reporter,
       lastReport, finalReports, totalBytes, processedLayers, finalOps >>

cidataVars == << env, cpc, partsBefore, partsAfter, newPart, cmds, files, exit >>

fileVars == << fileOut, fileCloses, device, finalOps >>
layerVars ==
    << layerReader, src, decompressor, selectorCalls, decompCloses, readerCloses >>
copyVars == << rBytes, wBytes, buf, rdErr, copyErr >>
reporterVars == << ticker, tickC, reporter, lastReport, finalReports >>
totalVars == << totalBytes, processedLayers >>

Running == [msg |-> "", cause |-> ""]
Success == [msg |-> "nil", cause |-> "nil"]
Error(msg, cause) == [msg |-> msg, cause |-> cause]

\* cidataio is another program: while Write runs, none of its state exists.
CidataNotRun ==
    /\ env = << >>
    /\ cpc = "notRun"
    /\ partsBefore = << >>
    /\ partsAfter = << >>
    /\ newPart = << >>
    /\ cmds = << >>
    /\ files = << >>
    /\ exit = "notRun"

\* The state with nothing done yet: the image reference, the point of
\* control, and (for a component run on its own) the manifest, the source
\* stream and the sink it is given.
WriteStateWith(ref, at, m, s, sink) ==
    /\ sourceImage = ref
    /\ pc = at
    /\ result = Running
    /\ fileOut = "unopened"
    /\ fileCloses = 0
    /\ device = <<>>
    /\ manifest = m
    /\ i = 1
    /\ layerReader = [k \in Layers |-> "none"]
    /\ src = s
    /\ decompressor = NilReader
    /\ selectorCalls = [k \in Layers |-> <<>>]
    /\ decompCloses = [k \in Layers |-> 0]
    /\ readerCloses = [k \in Layers |-> 0]
    /\ pw = sink
    /\ rBytes = [k \in Layers |-> 0]
    /\ wBytes = [k \in Layers |-> 0]
    /\ buf = <<>>
    /\ rdErr = NoError
    /\ copyErr = NoError
    /\ ticker = "none"
    /\ tickC = FALSE
    /\ reporter = [k \in Layers |-> "none"]
    /\ lastReport = [k \in Layers |-> "none"]
    /\ finalReports = [k \in Layers |-> 0]
    /\ totalBytes = 0
    /\ processedLayers = 0
    /\ finalOps = <<>>

InitWith(ref, at, m, s, sink) ==
    /\ WriteStateWith(ref, at, m, s, sink)
    /\ CidataNotRun

\* Write is another program than cidataio: while cidataio runs, Write does not.
WriteNotRun ==
    WriteStateWith([wellFormed |-> FALSE, reference |-> ""], "notRun", <<>>, <<>>, "file")

\* The call of Write(sourceImage, destinationDevice).
Init == \E ref \in ImageRefs : InitWith(ref, "newRepository", <<>>, <<>>, "file")


\* ---------------------------------------------------------------- Write
\* Lines 86-89: remote.NewRepository(sourceImage).
NewRepository ==
    /\ pc = "newRepository"
    /\ IF sourceImage.wellFormed
       THEN pc' = "openFile" /\ result' = result
       ELSE pc' = "done" /\ result' = Error("failed to create repository", "invalid reference")
    /\ UNCHANGED << cidataVars, sourceImage, manifest, i, pw, fileVars, layerVars, copyVars,
                    reporterVars, totalVars >>

\* Lines 95-99: os.OpenFile(destinationDevice, O_CREATE|O_WRONLY) and the
\* deferred Close it registers.
OpenFile ==
    /\ pc = "openFile"
    /\ \E ok \in BOOLEAN :
         IF ok
         THEN fileOut' = "open" /\ pc' = "checkReference" /\ result' = result
         ELSE fileOut' = fileOut /\ pc' = "done" /\ result' = Error("open", "open")
    /\ UNCHANGED << cidataVars, sourceImage, manifest, i, pw, fileCloses, device, finalOps,
                    layerVars, copyVars, reporterVars, totalVars >>

\* Lines 104-107: the reference must carry a tag or a digest.
CheckReference ==
    /\ pc = "checkReference"
    /\ IF sourceImage.reference = ""
       THEN pc' = "return" /\ result' = Error("image reference format is invalid", "nil")
       ELSE pc' = "resolve" /\ result' = result
    /\ UNCHANGED << cidataVars, sourceImage, manifest, i, pw, fileVars, layerVars, copyVars,
                    reporterVars, totalVars >>

\* Lines 119-122: oras.Resolve.
Resolve ==
    /\ pc = "resolve"
    /\ \E ok \in BOOLEAN :
         IF ok
         THEN pc' = "fetchManifest" /\ result' = result
         ELSE pc' = "return" /\ result' = Error("failed to resolve manifest", "registry")
    /\ UNCHANGED << cidataVars, sourceImage, manifest, i, pw, fileVars, layerVars, copyVars,
                    reporterVars, totalVars >>

\* Lines 125-128: content.FetchAll of the manifest.
FetchManifest ==
    /\ pc = "fetchManifest"
    /\ \E ok \in BOOLEAN :
         IF ok
         THEN pc' = "parseManifest" /\ result' = result
         ELSE pc' = "return" /\ result' = Error("failed to fetch manifest", "registry")
    /\ UNCHANGED << cidataVars, sourceImage, manifest, i, pw, fileVars, layerVars, copyVars,
                    reporterVars, totalVars >>

\* Lines 131-139: json.Unmarshal of the manifest bytes, then the totals.
ParseManifest ==
    /\ pc = "parseManifest"
    /\ \/ /\ pc' = "return"
          /\ result' = Error("failed to parse manifest", "json")
          /\ UNCHANGED << manifest, i >>
       \/ /\ \E m \in Manifests : manifest' = m
          /\ i' = 1
          /\ pc' = "loop"
          /\ result' = result
    /\ UNCHANGED << cidataVars, sourceImage, pw, fileVars, layerVars, copyVars, reporterVars,
                    totalVars >>

\* Lines 141-146: a layer of another media type is skipped.
SkipLayer ==
    /\ pc = "loop"
    /\ i <= Len(manifest)
    /\ ~MatchesMediaType(manifest[i])
    /\ i' = i + 1
    /\ UNCHANGED << cidataVars, sourceImage, pc, result, manifest, pw, fileVars, layerVars,
                    copyVars, reporterVars, totalVars >>

\* Lines 148-158: repo.Fetch of a matching layer; sourceReader is the
\* fetched stream and decompressor is nil.
FetchLayer ==
    /\ pc = "loop"
    /\ i <= Len(manifest)
    /\ MatchesMediaType(manifest[i])
    /\ \E ok \in BOOLEAN :
         IF ok
         THEN /\ layerReader' = [layerReader EXCEPT ![i] = "open"]
              /\ src' = manifest[i].blob
              /\ pc' = "selectCodec"
              /\ result' = result
         ELSE /\ layerReader' = [layerReader EXCEPT ![i] = "failed"]
              /\ src' = src
              /\ pc' = "return"
              /\ result' = Error("failed to fetch layer", "registry")
    /\ decompressor' = NilReader
    /\ UNCHANGED << cidataVars, sourceImage, manifest, i, pw, fileVars, selectorCalls,
                    decompCloses, readerCloses, copyVars, reporterVars, totalVars >>

\* A failed selection that leaves the fetched stream open.
ReaderAfterInitErrorLeftOpen(k) == layerReader

\* Line 167: layerReader.Close() when findDecompressor failed.
ReaderAfterInitError(k) == [layerReader EXCEPT ![k] = "closed"]

\* Lines 160-172: the decompressor for the layer's title annotation, if any.
SelectCodec ==
    /\ pc = "selectCodec"
    /\ IF HasTitle(manifest[i])
       THEN LET f == findDecompressor(manifest[i].title, src)
            IN  /\ selectorCalls' =
                     [selectorCalls EXCEPT ![i] = Append(@, manifest[i].title)]
                /\ src' = f.rest
                /\ IF f.err # NoError
                   THEN /\ layerReader' = ReaderAfterInitError(i)
                        /\ readerCloses' = [readerCloses EXCEPT ![i] = @ + 1]
                        /\ decompressor' = decompressor
                        /\ pc' = "return"
                        /\ result' = Error("failed to create decompressor", f.err)
                   ELSE /\ layerReader' = layerReader
                        /\ readerCloses' = readerCloses
                        /\ decompressor' = f.reader
                        /\ pc' = "startReporter"
                        /\ result' = result
       ELSE /\ pc' = "startReporter"
            /\ UNCHANGED << selectorCalls, src, layerReader, readerCloses,
                            decompressor, result >>
    /\ UNCHANGED << cidataVars, sourceImage, manifest, i, pw, fileVars, decompCloses, copyVars,
                    reporterVars, totalVars >>

\* Lines 175-197: NewProgress(fileOut, sourceReader), the ticker, the done
\* channel and the reporting goroutine.
StartReporter ==
    /\ pc = "startReporter"
    /\ rBytes' = [rBytes EXCEPT ![i] = 0]
    /\ wBytes' = [wBytes EXCEPT ![i] = 0]
    /\ ticker' = "running"
    /\ tickC' = FALSE
    /\ reporter' = [reporter EXCEPT ![i] = "select"]
    /\ pc' = "copyRead"
    /\ UNCHANGED << cidataVars, sourceImage, result, manifest, i, pw, fileVars, layerVars, buf,
                    rdErr, copyErr, lastReport, finalReports, totalVars >>

\* A read counted only when it came without an error.
CountReadUnlessError(nu, err) == IF err = NoError THEN nu ELSE 0

\* Lines 51-52: Progress.Read adds the count the source returned, whatever
\* the error that came with it.
CountRead(nu, err) == nu

\* Line 200, first half of an io.Copy round: src.Read through Progress.Read
\* (lines 50-54); no bytes and an error end the copy (EOF is no error).
CopyRead ==
    /\ pc = "copyRead"
    /\ \E o \in SourceRead(decompressor, src) :
         /\ rBytes' = [rBytes EXCEPT ![i] = @ + CountRead(Len(o.data), o.er)]
         /\ src' = o.rest
         /\ decompressor' = o.dec
         /\ IF Len(o.data) > 0
            THEN /\ buf' = o.data
                 /\ rdErr' = o.er
                 /\ copyErr' = copyErr
                 /\ pc' = "copyWrite"
            ELSE /\ buf' = buf
                 /\ rdErr' = rdErr
                 /\ copyErr' = IF o.er = "EOF" THEN NoError ELSE o.er
                 /\ pc' = "stopTicker"
    /\ UNCHANGED << cidataVars, sourceImage, result, manifest, i, pw, fileVars, layerReader,
                    selectorCalls, decompCloses, readerCloses, wBytes, reporterVars,
                    totalVars >>

\* Line 200, second half of the round: dst.Write through Progress.Write
\* (lines 44-48); a write error, a short write or the error that came with
\* the bytes ends the copy.
CopyWrite ==
    /\ pc = "copyWrite"
    /\ \E o \in SinkWrite(pw, buf) :
         /\ wBytes' = [wBytes EXCEPT ![i] = @ + CountWritten(o.nw, buf)]
         /\ device' = FileWrite(device, buf, o.nw)
         /\ IF o.ew # NoError
            THEN copyErr' = o.ew /\ pc' = "stopTicker"
            ELSE IF o.nw # Len(buf)
            THEN copyErr' = "short write" /\ pc' = "stopTicker"
            ELSE IF rdErr # NoError
            THEN /\ copyErr' = IF rdErr = "EOF" THEN NoError ELSE rdErr
                 /\ pc' = "stopTicker"
            ELSE copyErr' = copyErr /\ pc' = "copyRead"
    /\ buf' = <<>>
    /\ rdErr' = NoError
    /\ UNCHANGED << cidataVars, sourceImage, result, manifest, i, pw, fileOut, fileCloses,
                    finalOps, layerVars, rBytes, reporterVars, totalVars >>

\* Line 203: ticker.Stop(); no tick is delivered afterwards.
StopTicker ==
    /\ pc = "stopTicker"
    /\ ticker' = "stopped"
    /\ pc' = "sendDone"
    /\ UNCHANGED << cidataVars, sourceImage, result, manifest, i, pw, fileVars, layerVars,
                    copyVars, tickC, reporter, lastReport, finalReports, totalVars >>

\* Line 204 with line 184: `done <- true` on the unbuffered channel meets
\* the reporter's `case <-done`; both goroutines go on.  Nothing receives
\* from ticker.C afterwards, so what it holds is dropped here.
SendDone ==
    /\ pc = "sendDone"
    /\ reporter[i] = "select"
    /\ reporter' = [reporter EXCEPT ![i] = "finalLog"]
    /\ tickC' = FALSE
    /\ pc' = "closeDecompressor"
    /\ UNCHANGED << cidataVars, sourceImage, result, manifest, i, pw, fileVars, layerVars,
                    copyVars, ticker, lastReport, finalReports, totalVars >>

\* A teardown that never closes the decompressor.
DecompressorCreatedIgnored(d) == FALSE

\* Line 207: `decompressor != nil`.
DecompressorCreated(d) == d.kind # "nil"

\* Lines 207-209: decompressor.Close() when one was created.
CloseDecompressor ==
    /\ pc = "closeDecompressor"
    /\ IF DecompressorCreated(decompressor)
       THEN decompCloses' = [decompCloses EXCEPT ![i] = @ + 1]
       ELSE decompCloses' = decompCloses
    /\ pc' = "closeLayerReader"
    /\ UNCHANGED << cidataVars, sourceImage, result, manifest, i, pw, fileVars, layerReader,
                    readerCloses, src, decompressor, selectorCalls, copyVars,
                    reporterVars, totalVars >>

\* Line 210: layerReader.Close().
CloseLayerReader ==
    /\ pc = "closeLayerReader"
    /\ layerReader' = [layerReader EXCEPT ![i] = "closed"]
    /\ readerCloses' = [readerCloses EXCEPT ![i] = @ + 1]
    /\ pc' = "checkCopy"
    /\ UNCHANGED << cidataVars, sourceImage, result, manifest, i, pw, fileVars, src, decompressor,
                    selectorCalls, decompCloses, copyVars, reporterVars, totalVars >>

\* Lines 212-218: a failed copy ends the run; else the totals are updated
\* and the loop goes on.
CheckCopy ==
    /\ pc = "checkCopy"
    /\ IF CopyFailed(copyErr)
       THEN /\ pc' = "return"
            /\ result' = Error("failed to write layer to device", copyErr)
            /\ UNCHANGED << i, totalVars, copyErr >>
       ELSE /\ totalBytes' = totalBytes + wBytes[i]
            /\ processedLayers' = processedLayers + 1
            /\ i' = i + 1
            /\ copyErr' = NoError
            /\ pc' = "loop"
            /\ result' = result
    /\ UNCHANGED << cidataVars, sourceImage, manifest, pw, fileVars, layerVars, rBytes, wBytes,
                    buf, rdErr, reporterVars >>

\* Lines 220-224: after the last layer.
CheckProcessed ==
    /\ pc = "loop"
    /\ i > Len(manifest)
    /\ IF NoLayerProcessed(processedLayers)
       THEN pc' = "return" /\ result' = Error("no layers with media type found", "nil")
       ELSE pc' = "sync" /\ result' = result
    /\ UNCHANGED << cidataVars, sourceImage, manifest, i, pw, fileVars, layerVars, copyVars,
                    reporterVars, totalVars >>

\* A Sync whose failure ends the finalizer.
AfterSyncFatal(ok) == IF ok THEN "ioctl" ELSE "return"

\* Lines 227-229: the `if` on Sync's error only logs a warning; execution
\* continues at the ioctl whatever Sync returned.
AfterSync(ok) == "ioctl"

\* Lines 227-229: fileOut.Sync(); a failure is a warning.
Sync ==
    /\ pc = "sync"
    /\ \E ok \in BOOLEAN :
          /\ finalOps' = Append(finalOps, <<"sync", ok>>)
          /\ pc' = AfterSync(ok)
    /\ UNCHANGED << cidataVars, sourceImage, result, manifest, i, pw, fileOut, fileCloses, device,
                    layerVars, copyVars, reporterVars, totalVars >>

\* Lines 231-235: the BLKRRPART ioctl; a failure is a warning; return nil.
Ioctl ==
    /\ pc = "ioctl"
    /\ \E ok \in BOOLEAN : finalOps' = Append(finalOps, <<"BLKRRPART", ok>>)
    /\ pc' = "return"
    /\ result' = Success
    /\ UNCHANGED << cidataVars, sourceImage, manifest, i, pw, fileOut, fileCloses, device,
                    layerVars, copyVars, reporterVars, totalVars >>

\* A return that leaves the handle as it is.
AfterDeferredCloseLeaking(f) == f

\* Line 99: the handle after the deferred fileOut.Close().
AfterDeferredClose(f) == "closed"

\* Line 99: the deferred fileOut.Close() runs as Write returns.
Return ==
    /\ pc = "return"
    /\ fileOut' = AfterDeferredClose(fileOut)
    /\ fileCloses' = fileCloses + 1
    /\ pc' = "done"
    /\ UNCHANGED << cidataVars, sourceImage, result, manifest, i, pw, device, finalOps, layerVars,
                    copyVars, reporterVars, totalVars >>

\* ------------------------------------------------- the reporting goroutine
\* The runtime timer puts a tick in ticker.C (capacity 1) while the ticker
\* runs; a tick that finds the channel full is dropped.
Tick ==
    /\ ticker = "running"
    /\ ~tickC
    /\ tickC' = TRUE
    /\ UNCHANGED << cidataVars, sourceImage, pc, result, manifest, i, pw, fileVars, layerVars,
                    copyVars, ticker, reporter, lastReport, finalReports, totalVars >>

\* Line 190: `case <-ticker.C`.
ReporterTick ==
    /\ i \in Layers
    /\ reporter[i] = "select"
    /\ tickC
    /\ tickC' = FALSE
    /\ reporter' = [reporter EXCEPT ![i] = "tickLog"]
    /\ UNCHANGED << cidataVars, sourceImage, pc, result, manifest, i, pw, fileVars, layerVars,
                    copyVars, ticker, lastReport, finalReports, totalVars >>

\* A reporter that ends after the report of a tick.
AfterTickLogExiting == "exited"

\* Lines 182-195: after the report of a tick the `for` loop is back at
\* the select.
AfterTickLog == "select"

\* Lines 191-194: the report of a tick, then back to the select.
ReporterTickLog ==
    \E k \in Layers :
       /\ reporter[k] = "tickLog"
       /\ lastReport' = [lastReport EXCEPT ![k] = "tick"]
       /\ reporter' = [reporter EXCEPT ![k] = AfterTickLog]
       /\ UNCHANGED << cidataVars, sourceImage, pc, result, manifest, i, pw, fileVars, layerVars,
                       copyVars, ticker, tickC, finalReports, totalVars >>

\* The reporter's state after its final report, were the return missing.
AfterFinalLogLooping == "select"

\* Line 189: `return` after the final report.
AfterFinalLog == "exited"

\* Lines 185-189: the final report after done was received, then return.
ReporterFinalLog ==
    \E k \in Layers :
       /\ reporter[k] = "finalLog"
       /\ finalReports' = [finalReports EXCEPT ![k] = @ + 1]
       /\ lastReport' = [lastReport EXCEPT ![k] = "final"]
       /\ reporter' = [reporter EXCEPT ![k] = AfterFinalLog]
       /\ UNCHANGED << cidataVars, sourceImage, pc, result, manifest, i, pw, fileVars, layerVars,
                       copyVars, ticker, tickC, totalVars >>

Next ==
    \/ NewRepository \/ OpenFile \/ CheckReference \/ Resolve \/ FetchManifest
    \/ ParseManifest \/ SkipLayer \/ FetchLayer \/ SelectCodec \/ StartReporter
    \/ CopyRead \/ CopyWrite \/ StopTicker \/ SendDone \/ CloseDecompressor
    \/ CloseLayerReader \/ CheckCopy \/ CheckProcessed \/ Sync \/ Ioctl \/ Return
    \/ Tick \/ ReporterTick \/ ReporterTickLog \/ ReporterFinalLog

Spec == Init /\ [][Next]_vars

\* The goroutine that runs Write, and the reporting goroutines.
Orchestrator ==
    \/ NewRepository \/ OpenFile \/ CheckReference \/ Resolve \/ FetchManifest
    \/ ParseManifest \/ SkipLayer \/ FetchLayer \/ SelectCodec \/ StartReporter
    \/ CopyRead \/ CopyWrite \/ StopTicker \/ SendDone \/ CloseDecompressor
    \/ CloseLayerReader \/ CheckCopy \/ CheckProcessed \/ Sync \/ Ioctl \/ Return

Reporters == ReporterTick \/ ReporterTickLog \/ ReporterFinalLog

\* The Go scheduler runs every goroutine that can run: neither the
\* goroutine of Write nor a reporter waits forever while it is able to take
\* a step.  Nothing is assumed of the timer.
FairSpec == Spec /\ WF_vars(Orchestrator) /\ WF_vars(Reporters)


\* ------------------------------------------- findDecompressor on its own
\* The streams handed to findDecompressor: every encoding of every payload
\* length, the empty stream included.
TestBlobs == {Encode(c, Payload(1, n)) : c \in Encodings, n \in 0..MaxLen}

\* One layer that stands for the (filename, reader) pair of a test case.
TestLayer(name, blob) ==
    [mediaType |-> customMediaType, hasAnnotations |-> TRUE, hasTitle |-> TRUE,
     title |-> name, blob |-> blob]

TestRef == [wellFormed |-> TRUE, reference |-> "latest"]

\* Test_findDecompressor's table: a name and a stream (image_test.go 46-102).
InitCodec ==
    \E name \in Names, blob \in TestBlobs :
       InitWith(TestRef, "findDecompressor", <<TestLayer(name, blob)>>, blob, "file")

\* image_test.go 105: `_, err := findDecompressor(tt.filename, tt.reader(t))`;
\* a reader that was returned is then read to its end through Progress.
TestFindDecompressor ==
    /\ pc = "findDecompressor"
    /\ LET f == findDecompressor(manifest[1].title, src)
       IN  /\ selectorCalls' = [selectorCalls EXCEPT ![1] = Append(@, manifest[1].title)]
           /\ src' = f.rest
           /\ decompressor' = f.reader
           /\ result' = Error(f.err, f.err)
           /\ pc' = IF f.err = NoError THEN "copyRead" ELSE "done"
    /\ UNCHANGED << cidataVars, sourceImage, manifest, i, pw, fileVars, layerReader,
                    decompCloses, readerCloses, copyVars, reporterVars, totalVars >>

NextCodec == TestFindDecompressor \/ CopyRead \/ CopyWrite

SpecCodec == InitCodec /\ [][NextCodec]_vars

\* ----------------------------------------------------- Progress on its own
\* io.Copy(progress, progress) over a source of any length and either kind
\* of sink: the file of Write, or a writer that accepts what it likes.
InitProgress ==
    \E blob \in TestBlobs, sink \in {"file", "any"} :
       InitWith(TestRef, "copyRead",
                <<[mediaType |-> customMediaType, hasAnnotations |-> FALSE,
                   hasTitle |-> FALSE, title |-> <<>>, blob |-> blob]>>,
                blob, sink)

NextProgress == CopyRead \/ CopyWrite

SpecProgress == InitProgress /\ [][NextProgress]_vars

\* ===================================================================
\* cidataio (src/cidataio/main.go): adds a partition to the disk that was
\* just written, formats and mounts it and writes the cloud-init files.

\* Longest command output considered, in characters.
MaxStr == 3

\* Strings are sequences of characters. A partition listing holds device
\* names, for which two characters stand, separated by newlines.
Newline == "\n"
Chars == {"1", "2", Newline}
Outputs == UNION {[1..n -> Chars] : n \in 0..MaxStr}

EmptyString == << >>

\* strings.TrimSpace (line 39): leading and trailing white space removed.
RECURSIVE TrimLeft(_)
TrimLeft(s) ==
    IF s # EmptyString /\ Head(s) = Newline THEN TrimLeft(Tail(s)) ELSE s

RECURSIVE TrimRight(_)
TrimRight(s) ==
    IF s # EmptyString /\ s[Len(s)] = Newline
    THEN TrimRight(SubSeq(s, 1, Len(s) - 1))
    ELSE s

TrimSpace(s) == TrimRight(TrimLeft(s))

\* strings.Split(s, "\n") (lines 45, 51): the pieces between the newlines,
\* empty pieces included; a string without a newline is its only piece.
RECURSIVE Split(_)
Split(s) ==
    IF \A n \in 1..Len(s) : s[n] # Newline
    THEN << s >>
    ELSE LET n == CHOOSE n \in 1..Len(s) :
                     s[n] = Newline /\ \A m \in 1..(n - 1) : s[m] # Newline
         IN  << SubSeq(s, 1, n - 1) >> \o Split(SubSeq(s, n + 1, Len(s)))

\* A comparison that forgets the partitions listed before.
beforeSetForgotten(before) == {}

\* Lines 44-49: the set of the non-empty lines of `before`.
beforeSet(before) ==
    {Split(before)[n] : n \in 1..Len(Split(before))} \ {EmptyString}

\* Lines 51-56: the loop over the lines of `after`; the first line that is
\* non-empty and not in the set is returned, "" when there is none.
RECURSIVE FirstNew(_, _)
FirstNew(lines, set) ==
    IF lines = << >> THEN EmptyString
    ELSE IF Head(lines) # EmptyString /\ Head(lines) \notin set THEN Head(lines)
    ELSE FirstNew(Tail(lines), set)

\* Lines 43-57.
findNewPartition(before, after) == FirstNew(Split(after), beforeSet(before))

\* Lines 13-18 and 113.
configISOLabel == << "cidata" >>
configNetworkConfigPath == "network-config"
configMetaDataPath == "meta-data"
configUserDataPath == "user-data"
mountPoint == << "/mnt/cidata" >>

\* The environment: the variables main reads (lines 78, 119-121) and the
\* one the README documents (README.md line 22). os.Getenv returns "" for
\* a variable that is not set; a variable that is set holds a value of its
\* own.
EnvVars == {"DEST_DISK", "USER_DATA", "META_DATA", "NETWORK_CONFIG", "VENDOR_DATA"}

ValueOf ==
    [v \in EnvVars |->
        CASE v = "DEST_DISK" -> << "s", "d", "a" >>
          [] v = "USER_DATA" -> << "u" >>
          [] v = "META_DATA" -> << "m", "d" >>
          [] v = "NETWORK_CONFIG" -> << "n" >>
          [] v = "VENDOR_DATA" -> << "v" >>]

Environments ==
    {e \in [EnvVars -> {EmptyString} \cup {ValueOf[v] : v \in EnvVars}] :
        \A v \in EnvVars : e[v] \in {EmptyString, ValueOf[v]}}

\* os.WriteFile(path, content, 0644) that succeeded (line 68).
WriteFile(fs, path, content) ==
    [p \in DOMAIN fs \cup {path} |-> IF p = path THEN content ELSE fs[p]]

\* os.WriteFile that failed: the file was not created, or was created and
\* truncated and not written in full.
FailedWriteFile(fs, path, content) ==
    {fs} \cup {WriteFile(fs, path, SubSeq(content, 1, n)) : n \in 0..(Len(content) - 1)}

\* log.Fatalf: the process exits where it is.
Fatal == exit' = "fatal" /\ cpc' = cpc

At(point) == exit = "running" /\ cpc = point

\* Lines 21-29: run a command; a failure is fatal.
run(name, arg, next) ==
    /\ \E ok \in BOOLEAN :
          /\ cmds' = Append(cmds, << name, arg, ok >>)
          /\ IF ok THEN cpc' = next /\ exit' = exit ELSE Fatal
    /\ UNCHANGED << writeVars, env, partsBefore, partsAfter, newPart, files >>

\* Lines 60-72: writeFileIfEnv.
writeFileIfEnv(envVar, path, next) ==
    /\ LET content == env[envVar]
       IN  IF content = EmptyString
           THEN files' = files /\ cpc' = next /\ exit' = exit
           ELSE \/ files' = WriteFile(files, path, content) /\ cpc' = next /\ exit' = exit
                \/ files' \in FailedWriteFile(files, path, content) /\ Fatal
    /\ UNCHANGED << writeVars, env, partsBefore, partsAfter, newPart, cmds >>

\* The start of main.
InitCidata ==
    /\ WriteNotRun
    /\ env \in Environments
    /\ cpc = "getDisk"
    /\ partsBefore = EmptyString
    /\ partsAfter = EmptyString
    /\ newPart = EmptyString
    /\ cmds = << >>
    /\ files = << >>
    /\ exit = "running"

\* Lines 78-81.
GetDisk ==
    /\ At("getDisk")
    /\ IF env["DEST_DISK"] = EmptyString THEN Fatal
       ELSE cpc' = "partprobe" /\ exit' = exit
    /\ UNCHANGED << writeVars, env, partsBefore, partsAfter, newPart, cmds, files >>

\* Line 84.
Partprobe ==
    /\ At("partprobe")
    /\ run("partprobe", env["DEST_DISK"], "listBefore")

\* Lines 90-91: the listing is whatever the shell printed, trimmed.
ListBefore ==
    /\ At("listBefore")
    /\ \E out \in Outputs : partsBefore' = TrimSpace(out)
    /\ cpc' = "sgdisk"
    /\ UNCHANGED << writeVars, env, partsAfter, newPart, cmds, files, exit >>

\* Line 95.
Sgdisk ==
    /\ At("sgdisk")
    /\ run("sgdisk", env["DEST_DISK"], "partprobeAgain")

\* Line 98.
PartprobeAgain ==
    /\ At("partprobeAgain")
    /\ run("partprobe", env["DEST_DISK"], "listAfter")

\* Line 100.
ListAfter ==
    /\ At("listAfter")
    /\ \E out \in Outputs : partsAfter' = TrimSpace(out)
    /\ cpc' = "findNewPartition"
    /\ UNCHANGED << writeVars, env, partsBefore, newPart, cmds, files, exit >>

\* Lines 102-106.
FindNewPartition ==
    /\ At("findNewPartition")
    /\ newPart' = findNewPartition(partsBefore, partsAfter)
    /\ IF newPart' = EmptyString THEN Fatal
       ELSE cpc' = "mkfs" /\ exit' = exit
    /\ UNCHANGED << writeVars, env, partsBefore, partsAfter, cmds, files >>

\* Line 110.
MkfsVfat ==
    /\ At("mkfs")
    /\ run("mkfs.vfat", newPart, "mkdir")

\* Line 115.
Mkdir ==
    /\ At("mkdir")
    /\ run("mkdir", mountPoint, "mount")

\* Line 116.
Mount ==
    /\ At("mount")
    /\ run("mount", newPart, "writeUserData")

\* Line 119.
WriteUserData ==
    /\ At("writeUserData")
    /\ writeFileIfEnv("USER_DATA", configUserDataPath, "writeMetaData")

\* Line 120.
WriteMetaData ==
    /\ At("writeMetaData")
    /\ writeFileIfEnv("META_DATA", configMetaDataPath, "writeNetworkConfig")

\* Line 121.
WriteNetworkConfig ==
    /\ At("writeNetworkConfig")
    /\ writeFileIfEnv("NETWORK_CONFIG", configNetworkConfigPath, "umount")

\* Line 125.
Umount ==
    /\ At("umount")
    /\ run("umount", mountPoint, "exit")

\* Lines 127-128: main returns.
Exit ==
    /\ At("exit")
    /\ exit' = "ok"
    /\ UNCHANGED << writeVars, env, cpc, partsBefore, partsAfter, newPart, cmds, files >>

NextCidata ==
    \/ GetDisk \/ Partprobe \/ ListBefore \/ Sgdisk \/ PartprobeAgain \/ ListAfter
    \/ FindNewPartition \/ MkfsVfat \/ Mkdir \/ Mount \/ WriteUserData
    \/ WriteMetaData \/ WriteNetworkConfig \/ Umount \/ Exit

SpecCidata == InitCidata /\ [][NextCidata]_vars


\* ------------------------------------------------------------ the claims
\* What the claims compare the code with, stated without the operators of
\* the code above.
Positions == 1..Len(manifest)

MatchingLayers ==
    {k \in Positions : manifest[k].mediaType = "application/vnd.oci.image.layer.v1.tar"}

Titled(k) == manifest[k].hasAnnotations /\ manifest[k].hasTitle

\* The payload the blob of layer k was encoded from.
Original(k) ==
    CHOOSE p \in {Payload(k, n) : n \in 0..MaxLen} :
        \E c \in Encodings : Encode(c, p) = manifest[k].blob

\* The bytes layer k is to put on the device: its blob as it is when it has
\* no title, the payload that was compressed into it when it has one.
Expected(k) == IF Titled(k) THEN Original(k) ELSE manifest[k].blob

RECURSIVE ExpectedUpTo(_)
\* Expected(k) of the matching layers 1..n, one after the other.
ExpectedUpTo(n) ==
    IF n = 0 THEN <<>>
    ELSE ExpectedUpTo(n - 1) \o (IF n \in MatchingLayers THEN Expected(n) ELSE <<>>)

RECURSIVE WrittenUpTo(_)
\* Sum of the write counters of the layers 1..n.
WrittenUpTo(n) == IF n = 0 THEN 0 ELSE WrittenUpTo(n - 1) + wBytes[n]

Succeeded == pc = "done" /\ result = Success

Fetched(k) == layerReader[k] # "none"

\* C1: in a run of Write that succeeds, exactly the layers of the
\* recognized media type were fetched and written, the others were not
\* fetched, processedLayers is the number of matching layers and
\* totalBytes is the sum of their decompressed lengths, which is what
\* the device received.
C1_MatchingLayersWritten ==
    Succeeded =>
        /\ \A k \in Positions :
              IF k \in MatchingLayers
              THEN layerReader[k] = "closed" /\ wBytes[k] = Len(Expected(k))
              ELSE ~Fetched(k) /\ wBytes[k] = 0 /\ rBytes[k] = 0
                   /\ reporter[k] = "none" /\ selectorCalls[k] = <<>>
        /\ processedLayers = Cardinality(MatchingLayers)
        /\ totalBytes = Len(ExpectedUpTo(Len(manifest)))
        /\ totalBytes = Len(device)

\* A successful run over a gzip layer with a payload and a layer of another
\* media type: one layer processed, the payload's length in total.
C1_Witness ==
    /\ Succeeded
    /\ Len(manifest) = 2
    /\ MatchingLayers = {1}
    /\ manifest[1].title = NameGz
    /\ processedLayers = 1
    /\ totalBytes = MaxLen
    /\ totalBytes < Len(manifest[1].blob)

\* C2: after a successful run the device holds the decompressed streams of
\* the matching layers, one after the other in manifest order, and nothing
\* else.
C2_DeviceIsConcatenation ==
    Succeeded => device = ExpectedUpTo(Len(manifest))

\* Two matching layers with payloads, written one after the other.
C2_Witness ==
    /\ Succeeded
    /\ MatchingLayers = {1, 2}
    /\ Expected(1) # <<>> /\ Expected(2) # <<>>
    /\ manifest[2].title = NameGz
    /\ device = Expected(1) \o Expected(2)

PreLoopPoints ==
    {"newRepository", "openFile", "checkReference", "resolve", "fetchManifest",
     "parseManifest"}

PreLoopErrors ==
    {"failed to create repository", "open", "image reference format is invalid",
     "failed to resolve manifest", "failed to fetch manifest",
     "failed to parse manifest"}

\* The manifest was fetched and parsed.
ManifestParsed == pc \notin PreLoopPoints /\ result.msg \notin PreLoopErrors

NoMatchingLayers == Error("no layers with media type found", "nil")

\* C3: with a manifest none of whose layers has the recognized media type
\* (an empty one included) nothing is fetched, the device receives nothing,
\* the finalizer is not run and Write returns the no-layers error.
C3_NoMatchingLayers ==
    (ManifestParsed /\ MatchingLayers = {}) =>
        /\ device = <<>>
        /\ \A k \in Layers : ~Fetched(k)
        /\ finalOps = <<>>
        /\ pc \in {"loop", "return", "done"}
        /\ pc \in {"return", "done"} => result = NoMatchingLayers

\* Write has returned for a manifest of two layers of another media type.
C3_Witness ==
    /\ pc = "done"
    /\ Len(manifest) = 2
    /\ MatchingLayers = {}
    /\ result = NoMatchingLayers
    /\ fileOut = "closed"

\* findDecompressor fails for the title and the blob of layer k.
SelectorFails(k) == findDecompressor(manifest[k].title, manifest[k].blob).err # NoError

\* C4: when the Codec Selector fails for a matching layer, Write fails with
\* that error, nothing of the layer reaches the device, no reporter is
\* started for it, its stream is closed, and the device handle is closed
\* when Write has returned.
C4_SelectorFailure ==
    \A k \in Positions :
        (selectorCalls[k] # <<>> /\ SelectorFails(k)) =>
            /\ k = i
            /\ pc \in {"return", "done"}
            /\ result = Error("failed to create decompressor",
                              findDecompressor(manifest[k].title, manifest[k].blob).err)
            /\ wBytes[k] = 0
            /\ Len(device) = WrittenUpTo(k - 1)
            /\ reporter[k] = "none"
            /\ ticker # "running"
            /\ layerReader[k] = "closed"
            /\ pc = "done" => fileOut = "closed" /\ fileCloses = 1

\* The scenario of the `.xz` title on gzip content, after a first layer
\* was written.
C4_Witness ==
    /\ pc = "done"
    /\ Len(manifest) = 2
    /\ manifest[2].title = NameXz
    /\ manifest[2].blob = Encode("gzip", Payload(2, 1))
    /\ result = Error("failed to create decompressor", "invalid header")
    /\ device # <<>>
    /\ layerReader[2] = "closed"


\* The name and the stream of the test case, and whether the call was made.
TestName == manifest[1].title
TestBlob == manifest[1].blob
Called == pc # "findDecompressor"

\* The table of section 4.1, suffix by suffix.
SuffixTable ==
    { << <<".", "b", "z", "2">>, "bzip2" >>,
      << <<".", "b", "z", "i", "p", "2">>, "bzip2" >>,
      << <<".", "g", "z">>, "gzip" >>,
      << <<".", "x", "z">>, "xz" >>,
      << <<".", "z", "s">>, "zstd" >>,
      << <<".", "z", "s", "t">>, "zstd" >> }

\* The codec the table gives the final extension of a name, if any.
TableCodec(name) ==
    IF \E e \in SuffixTable : e[1] = FilepathExt(name)
    THEN (CHOOSE e \in SuffixTable : e[1] = FilepathExt(name))[2]
    ELSE "unknown"

\* The stream is what codec c produces for some payload.
EncodedBy(c, blob) == \E n \in 0..MaxLen : blob = Encode(c, Payload(1, n))

CopyEnded == pc = "stopTicker"

\* C5 as stated: for every recognized suffix findDecompressor returns a
\* reader for validly-encoded input and an error when the header does not
\* match the suffix's codec.
C5_InitErrorForEverySuffix ==
    (Called /\ TableCodec(TestName) # "unknown") =>
        IF EncodedBy(TableCodec(TestName), TestBlob)
        THEN result.msg = NoError
        ELSE result.msg # NoError

\* C5 as the code has it: for `.gz` and `.xz` findDecompressor returns a
\* reader for validly-encoded input and an init error for a mismatched
\* header; for `.bz2`, `.bzip2`, `.zs` and `.zst` it returns a reader
\* whatever the stream holds, has read nothing, and a mismatched header is
\* the error of the first Read, before any byte is delivered.  A reader
\* over validly-encoded input delivers the payload.
C5_InitErrorForGzipAndXz ==
    (Called /\ TableCodec(TestName) # "unknown") =>
        LET c == TableCodec(TestName)
            valid == EncodedBy(c, TestBlob)
        IN  /\ IF c \in {"gzip", "xz"}
               THEN IF valid
                    THEN result.msg = NoError /\ decompressor.kind = c
                    ELSE /\ result.msg = "invalid header"
                         /\ decompressor = NilReader
                         /\ pc = "done"
               ELSE /\ result.msg = NoError
                    /\ decompressor.kind = c
                    /\ ~valid =>
                          /\ device = <<>>
                          /\ rBytes[1] = 0
                          /\ pc \in {"copyRead", "stopTicker"}
                          /\ CopyEnded => copyErr = "invalid header"
            /\ (valid /\ CopyEnded /\ copyErr = NoError) => device = Original(1)

\* A `.bz2` name over a gzip stream: a reader was returned, and its first
\* Read failed.
C5_Witness ==
    /\ TestName = <<"d", ".", "b", "z", "2">>
    /\ TestBlob = Encode("gzip", Payload(1, MaxLen))
    /\ result.msg = NoError
    /\ decompressor.kind = "bzip2"
    /\ CopyEnded
    /\ copyErr = "invalid header"

\* C6: for a name whose final extension is not one of the six of the
\* table, findDecompressor returns the unknown-suffix error and no reader
\* and has read nothing from the stream; for the six it never returns that
\* error.
C6_UnsupportedCodec ==
    Called =>
        IF TableCodec(TestName) = "unknown"
        THEN /\ result.msg = "unknown compression suffix"
             /\ decompressor = NilReader
             /\ src = TestBlob
             /\ rBytes[1] = 0
             /\ device = <<>>
             /\ pc = "done"
        ELSE result.msg # "unknown compression suffix"

\* A differently-cased extension over a valid gzip stream.
C6_Witness ==
    /\ pc = "done"
    /\ TestName = <<"d", ".", "G", "Z">>
    /\ TestBlob = Encode("gzip", Payload(1, MaxLen))
    /\ result.msg = "unknown compression suffix"
    /\ src = TestBlob

\* Layer k was fetched and the choice of its decompressor is made.
SelectionDone(k) ==
    /\ layerReader[k] \in {"open", "closed"}
    /\ ~(k = i /\ pc = "selectCodec")

\* The part of the device that layer k wrote.
DeviceSeg(k) == SubSeq(device, WrittenUpTo(k - 1) + 1, WrittenUpTo(k))

\* The copy of layer k ended without an error.
LayerCopied(k) ==
    \/ k < i
    \/ /\ k = i
       /\ pc \in {"stopTicker", "sendDone", "closeDecompressor", "closeLayerReader",
                  "checkCopy"}
       /\ copyErr = NoError

\* C7: a matching layer is passed through (findDecompressor not called, no
\* decompressor created or closed, its bytes on the device as fetched) if
\* and only if it has no title annotation; with a title, whatever its
\* value, findDecompressor is called with it, and its failure ends the run.
C7_PassThroughIffNoTitle ==
    \A k \in Positions :
        SelectionDone(k) =>
            IF ~Titled(k)
            THEN /\ selectorCalls[k] = <<>>
                 /\ decompCloses[k] = 0
                 /\ k = i => decompressor = NilReader
                 /\ DeviceSeg(k) = SubSeq(manifest[k].blob, 1, wBytes[k])
                 /\ LayerCopied(k) => DeviceSeg(k) = manifest[k].blob
            ELSE /\ selectorCalls[k] = <<manifest[k].title>>
                 /\ IF SelectorFails(k)
                    THEN /\ pc \in {"return", "done"}
                         /\ result.msg = "failed to create decompressor"
                         /\ reporter[k] = "none"
                    ELSE /\ (k = i /\ pc \in {"startReporter", "copyRead", "copyWrite",
                                              "stopTicker", "sendDone"})
                               => decompressor.kind # "nil"
                         /\ k < i => decompCloses[k] = 1

\* A gzip blob under a map without a title went to the device as it is,
\* and the next layer's empty title ended the run.
C7_Witness ==
    /\ pc = "done"
    /\ Len(manifest) = 2
    /\ manifest[1].hasAnnotations /\ ~manifest[1].hasTitle
    /\ manifest[1].blob = Encode("gzip", Payload(1, 1))
    /\ device = manifest[1].blob
    /\ manifest[2].hasTitle /\ manifest[2].title = <<>>
    /\ selectorCalls[2] = << <<>> >>
    /\ result = Error("failed to create decompressor", "unknown compression suffix")

\* The length of the source Progress was given.
SourceLen == Len(manifest[1].blob)

\* C8 as stated: when the copy ends, whatever the chunks the sink accepts,
\* both counters equal the source's length (a source or sink that reports
\* an error aside).
C8_CountersEqualLength ==
    (CopyEnded /\ copyErr \notin {"read error", "write error"}) =>
        rBytes[1] = SourceLen /\ wBytes[1] = SourceLen

\* C8 as the code has it: the read counter is the number of bytes the
\* source delivered and the write counter the number the sink accepted, at
\* every point; when the copy ends without an error both equal the source's
\* length and the sink holds the source's bytes; a sink that accepts fewer
\* bytes than it is given ends the copy with the short-write error, the
\* write counter below the read counter.
C8_CountersFollowTheSink ==
    /\ rBytes[1] = SourceLen - Len(src)
    /\ wBytes[1] = Len(device)
    /\ device = SubSeq(manifest[1].blob, 1, wBytes[1])
    /\ wBytes[1] <= rBytes[1]
    /\ CopyEnded =>
          /\ copyErr = NoError =>
                rBytes[1] = SourceLen /\ wBytes[1] = SourceLen /\ device = manifest[1].blob
          /\ copyErr = "short write" => wBytes[1] < rBytes[1]

\* A sink that took one byte of a longer chunk, without an error.
C8_Witness ==
    /\ pw = "any"
    /\ CopyEnded
    /\ copyErr = "short write"
    /\ wBytes[1] = 1
    /\ rBytes[1] > 1

\* The stop signal of layer k was received by its reporter.
StopReceived(k) ==
    \/ k < i
    \/ k = i /\ pc \in {"closeDecompressor", "closeLayerReader", "checkCopy",
                        "return", "done"}

ReporterInvariant ==
    \A k \in Layers :
        /\ finalReports[k] <= 1
        /\ reporter[k] = "exited" <=> finalReports[k] = 1
        /\ finalReports[k] = 1 => lastReport[k] = "final"
        /\ reporter[k] \in {"finalLog", "exited"} <=> (reporter[k] # "none" /\ StopReceived(k))
        /\ reporter[k] = "none" => lastReport[k] = "none"

ReporterStep ==
    \A k \in Layers :
        /\ finalReports[k] = 1 =>
              /\ finalReports'[k] = 1
              /\ lastReport'[k] = "final"
              /\ reporter'[k] = "exited"
        /\ lastReport'[k] = "final" => (lastReport[k] = "final" \/ reporter[k] = "finalLog")

\* C9: the reporter of every layer whose copy was started logs one final
\* report, after it received the stop signal and not before, and then
\* has returned: it logs nothing after its final report, whatever it
\* logged before and however the copy ended.
C9_OneFinalReport == [](ReporterInvariant) /\ [][ReporterStep]_vars

\* Both reporters of a run have returned after their final report; the
\* second layer's copy failed.
C9_Witness ==
    /\ pc = "done"
    /\ reporter[1] = "exited" /\ reporter[2] = "exited"
    /\ finalReports[1] = 1 /\ finalReports[2] = 1
    /\ result = Error("failed to write layer to device", "write error")

\* A fatal error was met.
Failed == result \notin {Running, Success} \/ copyErr # NoError

FailedInvariant ==
    Failed =>
        /\ finalOps = <<>>
        /\ totalBytes = WrittenUpTo(i - 1)
        /\ processedLayers = Cardinality({k \in MatchingLayers : k < i})
        /\ \A k \in Positions : k > i => ~Fetched(k)
        /\ pc = "done" => result \notin {Running, Success}
        /\ (pc = "done" /\ copyErr # NoError) =>
              result = Error("failed to write layer to device", copyErr)

FailedStep ==
    Failed =>
        /\ Failed'
        /\ device' = device
        /\ layerReader' \in {layerReader, [layerReader EXCEPT ![i] = "closed"]}
        /\ rBytes' = rBytes /\ wBytes' = wBytes
        /\ totalBytes' = totalBytes /\ processedLayers' = processedLayers
        /\ finalOps' = finalOps
        /\ i' = i
        /\ copyErr' = copyErr
        /\ result # Running => result' = result

\* C10: the first fatal error ends the run: after it no layer is fetched,
\* no byte is written, the totals do not change (the failing layer is not
\* counted), the finalizer is not run, and that error is what Write returns.
C10_FirstErrorEndsRun == [](FailedInvariant) /\ [][FailedStep]_vars

\* A device write failed in the first of two matching layers after some
\* bytes: the second layer was never fetched.
C10_Witness ==
    /\ pc = "done"
    /\ result = Error("failed to write layer to device", "write error")
    /\ i = 1
    /\ MatchingLayers = {1, 2}
    /\ ~Fetched(2)
    /\ device # <<>>
    /\ totalBytes = 0 /\ processedLayers = 0
    /\ finalOps = <<>>

\* ---------------------------------------------------------------------
\* The finalizer (lines 220-236).

\* Every matching layer of the parsed manifest was copied without error and
\* there is at least one.
AllMatchingCopied ==
    /\ ManifestParsed
    /\ MatchingLayers # {}
    /\ \A k \in MatchingLayers : LayerCopied(k)

FinalizerOrder == << "sync", "BLKRRPART" >>

\* C11: when at least one layer was processed and every matching layer was
\* copied without error, Write returns success whatever the flush and the
\* partition re-read returned; the flush is issued before the re-read, once
\* each, and the re-read is issued also after a failed flush.
C11_FinalizerNeverFails ==
    /\ Len(finalOps) <= 2
    /\ \A n \in 1..Len(finalOps) : finalOps[n][1] = FinalizerOrder[n]
    /\ (pc = "done" /\ AllMatchingCopied) =>
          /\ result = Success
          /\ Len(finalOps) = 2
    /\ (finalOps # <<>> /\ pc \notin {"ioctl"}) => Len(finalOps) = 2

\* Both the flush and the re-read failed and Write returned success.
C11_Witness ==
    /\ pc = "done"
    /\ AllMatchingCopied
    /\ result = Success
    /\ finalOps = << <<"sync", FALSE>>, <<"BLKRRPART", FALSE>> >>

\* ---------------------------------------------------------------------
\* cidataio: the cloud-init files.

\* The variables the README documents and the file each is written to
\* (README.md lines 14 and 20-22).
DocumentedFile ==
    [v \in {"USER_DATA", "META_DATA", "VENDOR_DATA"} |->
        CASE v = "USER_DATA" -> "user-data"
          [] v = "META_DATA" -> "meta-data"
          [] v = "VENDOR_DATA" -> "vendor-data"]

\* The point of main at which a variable's file is written, if there is one.
WrittenAt ==
    [v \in EnvVars |->
        CASE v = "USER_DATA" -> "writeUserData"
          [] v = "META_DATA" -> "writeMetaData"
          [] v = "NETWORK_CONFIG" -> "writeNetworkConfig"
          [] OTHER -> "nowhere"]

\* C12: when cidataio completes, each of USER_DATA, META_DATA and
\* VENDOR_DATA that is set has produced its file (user-data, meta-data,
\* vendor-data) with the variable's content, and each one that is unset
\* has produced no file; a run never fails at the file of an unset
\* variable.
C12_DocumentedFilesWritten ==
    \A v \in DOMAIN DocumentedFile :
        /\ exit = "ok" =>
              IF env[v] # EmptyString
              THEN /\ DocumentedFile[v] \in DOMAIN files
                   /\ files[DocumentedFile[v]] = env[v]
              ELSE DocumentedFile[v] \notin DOMAIN files
        /\ (exit = "fatal" /\ cpc = WrittenAt[v]) => env[v] # EmptyString

\* ---------------------------------------------------------------------
\* The reporter's end and the layer's teardown (lines 199-214).

\* The copy of layer k was started: its reporter was.
CopyStarted(k) == reporter[k] # "none"

\* The reporter of layer k is a live goroutine.
Alive(k) == reporter[k] \in {"select", "tickLog", "finalLog"}

\* The reporter of layer k received the stop signal.
StopTaken(k) == reporter[k] \in {"finalLog", "exited"}

\* After its copy, a resource of layer k was released.
Released(k) == CopyStarted(k) /\ (decompCloses[k] > 0 \/ readerCloses[k] > 0)

\* C13: the final report of a layer has been emitted before the layer's
\* decompressor or fetched stream is released and before Write returns.
C13_FinalReportBeforeRelease ==
    \A k \in Layers :
        CopyStarted(k) =>
            /\ Released(k) => finalReports[k] = 1
            /\ pc = "done" => finalReports[k] = 1

\* C14: at most one reporter is alive; the reporter of layer k is alive
\* only during layer k's copy, and has finished when layer k's resources
\* are released and when the next matching layer is fetched.
C14_AtMostOneReporter ==
    /\ Cardinality({k \in Layers : Alive(k)}) <= 1
    /\ \A k \in Layers :
          Alive(k) =>
             /\ ~Released(k)
             /\ \A n \in Layers : n > k => ~Fetched(n)

\* A decompressor was created for layer k, whose copy was started.
Created(k) == CopyStarted(k) /\ selectorCalls[k] # <<>>

\* The orchestrator is done with layer k.
LayerLeft(k) == k < i \/ (k = i /\ pc \in {"return", "done"})

\* Both resources of layer k were released.
TornDown(k) ==
    /\ readerCloses[k] = 1
    /\ layerReader[k] = "closed"
    /\ Created(k) => decompCloses[k] = 1

\* C15: for a layer whose copy was started, the reporter has taken the stop
\* signal (and the ticker is stopped) before the decompressor is closed,
\* the decompressor, when one was created, is closed before the fetched
\* stream, each is closed once and no more, and both are closed when the
\* orchestrator leaves the layer, with the copy error or without.
C15_TeardownInOrder ==
    \A k \in Layers :
        /\ decompCloses[k] <= 1
        /\ readerCloses[k] <= 1
        /\ ~Created(k) => decompCloses[k] = 0
        /\ CopyStarted(k) =>
              /\ Released(k) => StopTaken(k) /\ (k = i => ticker = "stopped")
              /\ readerCloses[k] = 1 => (Created(k) => decompCloses[k] = 1)
              /\ LayerLeft(k) => TornDown(k)
              /\ (k = i /\ result.msg = "failed to write layer to device") =>
                    TornDown(k) /\ result.cause = copyErr

\* A lazily-checked decompressor failed at its first read: the copy error
\* was returned after both were closed.
C15_Witness ==
    /\ pc = "done"
    /\ result = Error("failed to write layer to device", "invalid header")
    /\ Created(1)
    /\ StopTaken(1)
    /\ decompCloses[1] = 1
    /\ readerCloses[1] = 1

\* ---------------------------------------------------------------------
\* The device handle (lines 94-99).

HandleInvariant ==
    /\ fileCloses <= 1
    /\ fileOut = "closed" <=> fileCloses = 1
    /\ pc \notin {"newRepository", "openFile", "done"} => fileOut = "open"
    /\ pc = "done" =>
          /\ fileOut \in {"unopened", "closed"}
          /\ fileOut = "unopened" => result.msg \in {"failed to create repository", "open"}
          /\ \A k \in Layers : layerReader[k] # "open"

HandleStep ==
    /\ fileOut # "open" => device' = device /\ finalOps' = finalOps
    /\ fileOut = "closed" => fileOut' = "closed" /\ pc' = "done"
    /\ (fileOut = "open" /\ fileOut' # "open") => pc' = "done"

\* C16: once opened the handle stays open until Write returns and is closed
\* once, as it returns, whatever the result; nothing is written, flushed
\* or re-read through a handle that is not open; no fetched stream is open
\* when Write has returned.
C16_HandleClosedOnce == [](HandleInvariant) /\ [][HandleStep]_vars

\* Write returned a copy error after the device received bytes: the handle
\* was closed once and the layer's stream is closed.
C16_Witness ==
    /\ pc = "done"
    /\ result.msg = "failed to write layer to device"
    /\ device # <<>>
    /\ fileOut = "closed"
    /\ fileCloses = 1
    /\ layerReader[1] = "closed"

\* ---------------------------------------------------------------------
\* The counters (lines 33-62).

CountersInvariant ==
    \A k \in Layers :
        /\ rBytes[k] >= 0
        /\ wBytes[k] >= 0
        /\ wBytes[k] <= rBytes[k]

CountersStep ==
    \A k \in Layers :
        /\ rBytes'[k] >= rBytes[k]
        /\ wBytes'[k] >= wBytes[k]

\* C17: in every state the two counters of a layer are non-negative, the
\* write counter is at most the read counter, and no step decreases either.
C17_CountersMonotonic == [](CountersInvariant) /\ [][CountersStep]_vars

\* A reporter is reporting a tick while bytes were read and not yet all
\* written.
C17_Witness ==
    /\ pc = "copyWrite"
    /\ reporter[i] = "tickLog"
    /\ rBytes[i] > wBytes[i]
    /\ wBytes[i] > 0

\* ---------------------------------------------------------------------
\* The stop handshake (lines 177-204).

\* C18: under fair scheduling the stop signal of every layer whose copy
\* ended is received by its reporter, and Write ends with a result.
C18_StopIsReceived ==
    /\ \A k \in Layers : (pc = "sendDone" /\ i = k) ~> StopTaken(k)
    /\ <>(pc = "done" /\ result # Running)

\* The stop is being sent while the reporter reports a tick and another
\* tick is pending.
C18_Witness ==
    /\ pc = "sendDone"
    /\ reporter[i] = "tickLog"
    /\ tickC

\* ---------------------------------------------------------------------
\* cidataio: the new partition (main.go lines 42-57, 97-116).

\* The places of s at which a non-empty line starts, and the line there.
LineStarts(s) ==
    {a \in 1..Len(s) : s[a] # Newline /\ (a = 1 \/ s[a - 1] = Newline)}

LineAt(s, a) ==
    LET b == CHOOSE b \in a..Len(s) :
                 /\ \A n \in a..b : s[n] # Newline
                 /\ b = Len(s) \/ s[b + 1] = Newline
    IN  SubSeq(s, a, b)

NonEmptyLines(s) == {LineAt(s, a) : a \in LineStarts(s)}

\* The places of `after` at which a line starts that `before` does not hold.
NewStarts(before, after) ==
    {a \in LineStarts(after) : LineAt(after, a) \notin NonEmptyLines(before)}

\* findNewPartition was called (line 102).
Compared ==
    \/ cpc \in {"mkfs", "mkdir", "mount", "writeUserData", "writeMetaData",
                "writeNetworkConfig", "umount", "exit"}
    \/ cpc = "findNewPartition" /\ exit = "fatal"

\* The commands run on a partition or on the mount point.
PartitionCommands == {"mkfs.vfat", "mkdir", "mount", "umount"}

\* C19: the result of findNewPartition is the first non-empty line of
\* `after` that is no line of `before`, and is empty exactly when there is
\* none, so it is never a partition listed before; with an empty result
\* main ends before mkfs, mkdir and mount, and a partition that is
\* formatted or mounted is the one that was found.
C19_FirstNewPartition ==
    /\ Compared =>
          LET new == NewStarts(partsBefore, partsAfter)
          IN  /\ newPart = EmptyString <=> new = {}
              /\ new # {} =>
                    \E a \in new :
                        /\ \A b \in new : a <= b
                        /\ newPart = LineAt(partsAfter, a)
              /\ newPart \notin NonEmptyLines(partsBefore)
              /\ newPart = EmptyString <=> (cpc = "findNewPartition" /\ exit = "fatal")
    /\ \A n \in 1..Len(cmds) :
          cmds[n][1] \in PartitionCommands =>
             /\ Compared
             /\ newPart # EmptyString
             /\ cmds[n][1] \in {"mkfs.vfat", "mount"} => cmds[n][2] = newPart

\* Two partitions are new and one of them is listed before an old one:
\* the first new one in the order of the listing was formatted and mounted.
C19_Witness ==
    /\ exit = "ok"
    /\ partsBefore = << "1" >>
    /\ partsAfter = << "2", Newline, "1" >>
    /\ newPart = << "2" >>
    /\ \E n \in 1..Len(cmds) : cmds[n] = << "mount", << "2" >>, TRUE >>

====
